---------------------------- MODULE Spec2Model ----------------------------
(***************************************************************************)
(* Verification cache of the Reddit content verifier.                      *)
(*                                                                         *)
(*   src/src/db/cache.py     normalize_url, generate_cache_key,            *)
(*                           get_cached_verification, store_verification   *)
(*   src/src/db/mongodb.py   connect_to_mongodb, get_database,             *)
(*                           close_mongodb_connection                      *)
(*   src/db/init_indexes.py  ensure_indexes                                *)
(*   src/src/app.py          lifespan, verify_content                      *)
(*   src/main.py             verify_content_agent                          *)
(*                                                                         *)
(* Strings are sequences of one-character strings, so that lower(),        *)
(* strip(), replace(), rstrip() and urlparse()/urlunparse() are computed   *)
(* character by character as the Python code computes them.                *)
(***************************************************************************)
EXTENDS Integers, Sequences, FiniteSets, TLC

None == "None"

(***************************************************************************)
(* str methods used by the code                                            *)
(***************************************************************************)
UpperChars == {"A", "B", "P", "W", "H", "T"}

LowerChar(c) ==
    CASE c = "A" -> "a"
      [] c = "B" -> "b"
      [] c = "P" -> "p"
      [] c = "W" -> "w"
      [] c = "H" -> "h"
      [] c = "T" -> "t"
      [] OTHER -> c

\* str.lower()
Lower(s) == [i \in 1..Len(s) |-> LowerChar(s[i])]

Whitespace == {" "}

RECURSIVE LStrip(_)
LStrip(s) ==
    IF s # <<>> /\ Head(s) \in Whitespace THEN LStrip(Tail(s)) ELSE s

RECURSIVE RStrip(_)
RStrip(s) ==
    IF s # <<>> /\ s[Len(s)] \in Whitespace
    THEN RStrip(SubSeq(s, 1, Len(s) - 1))
    ELSE s

\* str.strip()
Strip(s) == RStrip(LStrip(s))

\* s[:n] == pat
StartsWith(s, pat) ==
    Len(s) >= Len(pat) /\ SubSeq(s, 1, Len(pat)) = pat

\* s[i:] (i is a 1-based position here)
From(s, i) == SubSeq(s, i, Len(s))

\* str.find(c, start) + 1 : the first position >= start holding c, 0 if none
Find(s, c, start) ==
    LET hits == {i \in start..Len(s) : s[i] = c}
    IN  IF hits = {} THEN 0 ELSE CHOOSE i \in hits : \A j \in hits : i <= j

\* str.rfind(c) + 1
RFind(s, c) ==
    LET hits == {i \in 1..Len(s) : s[i] = c}
    IN  IF hits = {} THEN 0 ELSE CHOOSE i \in hits : \A j \in hits : i >= j

\* str.replace(pat, ""): every non-overlapping occurrence, left to right
RECURSIVE RemoveAll(_, _)
RemoveAll(s, pat) ==
    IF s = <<>> THEN <<>>
    ELSE IF StartsWith(s, pat) THEN RemoveAll(From(s, Len(pat) + 1), pat)
    ELSE <<Head(s)>> \o RemoveAll(Tail(s), pat)

\* a strip that takes one trailing slash off and leaves the others
RStripSlashOnce(s) ==
    IF s # <<>> /\ s[Len(s)] = "/" THEN SubSeq(s, 1, Len(s) - 1) ELSE s

\* str.rstrip("/")
RECURSIVE RStripSlash(_)
RStripSlash(s) ==
    IF s # <<>> /\ s[Len(s)] = "/"
    THEN RStripSlash(SubSeq(s, 1, Len(s) - 1))
    ELSE s

WWW == <<"w", "w", "w", ".">>

(***************************************************************************)
(* urllib.parse, as far as normalize_url uses it (CPython 3.11).  The      *)
(* characters of the model are ASCII letters, "." "/" "?" "#" ":" ";" "["  *)
(* "]" and the space; there are no digits, no "v" and no "%".              *)
(***************************************************************************)
Letters == {"a", "b", "c", "d", "f", "h", "p", "q", "s", "t", "w"} \cup UpperChars

\* urllib.parse.scheme_chars, restricted to the characters of the model
SchemeChars == Letters \cup {"."}

\* urllib.parse.uses_netloc / uses_params, restricted to the schemes the
\* characters of the model can spell
UsesNetloc == {<<>>, <<"h", "t", "t", "p">>, <<"h", "t", "t", "p", "s">>,
               <<"f", "t", "p">>, <<"w", "s">>, <<"w", "s", "s">>,
               <<"s", "f", "t", "p">>}
UsesParams == {<<>>, <<"h", "t", "t", "p">>, <<"h", "t", "t", "p", "s">>,
               <<"f", "t", "p">>, <<"s", "f", "t", "p">>,
               <<"s", "h", "t", "t", "p">>}

\* _splitnetloc(url, 2): the netloc ends at the first of "/", "?", "#"
NetlocEnd(u) ==
    LET ds == {i \in 3..Len(u) : u[i] \in {"/", "?", "#"}}
    IN  IF ds = {} THEN Len(u) + 1 ELSE CHOOSE i \in ds : \A j \in ds : i <= j

\* urlsplit, last step: the query is what follows the first "?"
SplitQuery(scheme, netloc, url, fragment) ==
    LET q == Find(url, "?", 1)
    IN  [scheme |-> scheme, netloc |-> netloc,
         path |-> IF q > 0 THEN SubSeq(url, 1, q - 1) ELSE url,
         query |-> IF q > 0 THEN From(url, q + 1) ELSE <<>>,
         fragment |-> fragment]

\* urlsplit, third step: the fragment is what follows the first "#"
SplitFragment(scheme, netloc, url) ==
    LET h == Find(url, "#", 1)
    IN  SplitQuery(scheme, netloc,
                   IF h > 0 THEN SubSeq(url, 1, h - 1) ELSE url,
                   IF h > 0 THEN From(url, h + 1) ELSE <<>>)

\* urlsplit, second step: a netloc only after "//"
SplitNetloc(scheme, url) ==
    IF StartsWith(url, <<"/", "/">>)
    THEN SplitFragment(scheme, SubSeq(url, 3, NetlocEnd(url) - 1),
                       From(url, NetlocEnd(url)))
    ELSE SplitFragment(scheme, <<>>, url)

\* urlsplit, first step: a scheme is a letter followed by scheme characters
\* up to the first ":" (at position i, 0 if there is none)
SplitScheme(url, i) ==
    IF /\ i > 1
       /\ url[1] \in Letters
       /\ \A k \in 1..(i - 1) : url[k] \in SchemeChars
    THEN SplitNetloc(Lower(SubSeq(url, 1, i - 1)), From(url, i + 1))
    ELSE SplitNetloc(<<>>, url)

urlsplit(url) == SplitScheme(LStrip(url), Find(LStrip(url), ":", 1))

\* str.split(sep)
RECURSIVE Split(_, _)
Split(s, sep) ==
    IF Find(s, sep, 1) = 0 THEN <<s>>
    ELSE <<SubSeq(s, 1, Find(s, sep, 1) - 1)>>
             \o Split(From(s, Find(s, sep, 1) + 1), sep)

\* ipaddress._HEX_DIGITS, restricted to the characters of the model
HexDigits == {"a", "b", "c", "d", "f", "A", "B"}

\* IPv6Address._parse_hextet does not raise
Hextet(part) ==
    /\ part # <<>>
    /\ Len(part) <= 4
    /\ \A i \in 1..Len(part) : part[i] \in HexDigits

\* IPv6Address._ip_int_from_string does not raise on these parts, with or
\* without the one "::" (an empty part that is neither first nor last)
HextetParts(parts, skips) ==
    IF skips = {}
    THEN /\ Len(parts) = 8
         /\ \A i \in 1..Len(parts) : Hextet(parts[i])
    ELSE \E k \in skips :
            /\ skips = {k}
            /\ parts[1] = <<>> => k = 2
            /\ parts[Len(parts)] = <<>> => k = Len(parts) - 1
            /\ \A i \in 1..(k - 1) :
                  (i = 1 /\ parts[1] = <<>>) \/ Hextet(parts[i])
            /\ \A i \in (k + 1)..Len(parts) :
                  (i = Len(parts) /\ parts[i] = <<>>) \/ Hextet(parts[i])
            /\ 8 - ((IF parts[1] = <<>> THEN 0 ELSE k - 1)
                    + (IF parts[Len(parts)] = <<>> THEN 0 ELSE Len(parts) - k))
                 >= 1

\* ipaddress.ip_address(hostname) returns an IPv6Address: without digits no
\* string of the model is an IPv4 address or has an IPv4 suffix
IsIPv6Parts(parts) ==
    /\ Len(parts) >= 3
    /\ Len(parts) <= 9
    /\ HextetParts(parts, {i \in 2..(Len(parts) - 1) : parts[i] = <<>>})

IsIPv6(host) == host # <<>> /\ IsIPv6Parts(Split(host, ":"))

\* netloc.partition("[")[2].partition("]")[0]
Bracketed(rest) ==
    IF Find(rest, "]", 1) = 0 THEN rest
    ELSE SubSeq(rest, 1, Find(rest, "]", 1) - 1)

\* urlsplit raises ValueError for this netloc: a bracket without the other,
\* or brackets around something that is no IPv6 address
InvalidNetloc(netloc) ==
    IF Find(netloc, "[", 1) = 0
    THEN Find(netloc, "]", 1) > 0
    ELSE \/ Find(netloc, "]", 1) = 0
         \/ ~IsIPv6(Bracketed(From(netloc, Find(netloc, "[", 1) + 1)))

\* urlparse(url) raises ValueError (urlsplit finds the netloc before it
\* splits off the fragment and the query, which do not change it)
RaisesValueError(url) == InvalidNetloc(urlsplit(url).netloc)

\* _splitparams(url)[0]: the path without the ";params" of its last segment
SplitParamsPath(url) ==
    LET sl == RFind(url, "/")
        i == IF sl > 0 THEN Find(url, ";", sl) ELSE Find(url, ";", 1)
    IN  IF i = 0 THEN url ELSE SubSeq(url, 1, i - 1)

\* urlparse after urlsplit: the params leave the path
SplitParams(r) ==
    [r EXCEPT !.path = IF r.scheme \in UsesParams /\ Find(r.path, ";", 1) > 0
                       THEN SplitParamsPath(r.path) ELSE r.path]

urlparse(url) == SplitParams(urlsplit(url))

\* urlunparse((scheme, netloc, path, "", "", "")): params, query and fragment
\* are passed empty, so only urlunsplit's netloc and scheme steps apply
urlunparse(scheme, netloc, path) ==
    LET withNetloc ==
            \/ netloc # <<>>
            \/ (scheme # <<>> /\ scheme \in UsesNetloc
                  /\ ~StartsWith(path, <<"/", "/">>))
        p1 == IF withNetloc /\ path # <<>> /\ Head(path) # "/"
              THEN <<"/">> \o path ELSE path
        u1 == IF withNetloc THEN <<"/", "/">> \o netloc \o p1 ELSE path
    IN  IF scheme # <<>> THEN scheme \o <<":">> \o u1 ELSE u1

(***************************************************************************)
(* src/src/db/cache.py                                                     *)
(***************************************************************************)
CACHE_TTL_DAYS == 30

\* cache.py:48-57: the URL rebuilt from the parsed one
Rebuild(parsed) ==
    urlunparse(parsed.scheme,
               RemoveAll(parsed.netloc, WWW),
               RStripSlash(parsed.path))

\* a normalization without the except branch
normalize_urlUnguarded(url) == Rebuild(urlparse(Strip(Lower(url))))

\* lines 39-62; the except branch returns url.lower().strip()
normalize_url(url) ==
    IF url = <<>> THEN <<>>
    ELSE IF RaisesValueError(Strip(Lower(url))) THEN Strip(Lower(url))
    ELSE Rebuild(urlparse(Strip(Lower(url))))

\* hashlib.sha256(...).hexdigest(), modelled as an injective tagging of the
\* normalized URL
Sha256(s) == <<"sha256">> \o s

\* a key taken from the lowercased raw URL
generate_cache_keyRaw(url) == Sha256(Lower(url))

generate_cache_key(url) == Sha256(normalize_url(url))


(***************************************************************************)
(* Bounds of the model                                                     *)
(***************************************************************************)
\* the clock advances MaxTicks times, by TickDays days each time
TickDays == 16
MaxTicks == 2
\* ObjectIds the store can hand out (an id is reused only once nothing
\* refers to it any more)
MaxIds == 4

Requests == {"r1", "r2"}

\* request.url: the two clients spell the page they ask about differently
UrlPlain == <<"h", "t", "t", "p", ":", "/", "/", "a", ".", "b", "/", "p">>
UrlVariant == <<"H", "T", "T", "P", ":", "/", "/", "w", "w", "w", ".", "a",
                ".", "b", "/", "p", "/", "?", "q">>
RequestUrls(r) == IF r = "r1" THEN {UrlPlain} ELSE {UrlVariant}

\* generate_cache_key and normalize_url of the URLs that requests carry,
\* computed once
CacheKeyOf ==
    [u \in UNION {RequestUrls(r) : r \in Requests} |-> generate_cache_key(u)]
NormalizedOf ==
    [u \in UNION {RequestUrls(r) : r \in Requests} |-> normalize_url(u)]

\* the title, subtext and postDate of the request (app.py:79-84): each
\* request sends its own
Metadata(r) == IF r = "r1" THEN <<"t", "1">> ELSE <<"t", "2">>

\* a key that depends on the content of the post as well
LookupKeyOfContent(r, u) == CacheKeyOf[u] \o Metadata(r)

\* app.py:134 and cache.py:95: the lookup is made with request.url alone
LookupKey(r, u) == CacheKeyOf[u]

(***************************************************************************)
(* What verify_content_agent returns (src/main.py:355-373): the parsed     *)
(* output of the model with its reconciled sources, or the fallback for    *)
(* output that is not JSON.  A key that is absent is the empty string,     *)
(* which every .get() of the code treats the same way.                     *)
(***************************************************************************)
ResultSourced ==
    [is_correct |-> "true", explanation |-> <<"e">>,
     sources |-> <<[source_url |-> <<"s">>, source_description |-> <<"d">>]>>,
     source_url |-> <<>>, source_description |-> <<>>]
\* the fallback of lines 361-365 / 369-373 with a non-empty raw response
ResultUnparsed ==
    [is_correct |-> "null", explanation |-> <<"x">>, sources |-> <<>>,
     source_url |-> <<>>, source_description |-> <<>>]
\* the same fallback when the raw response is empty
ResultEmpty ==
    [is_correct |-> "null", explanation |-> <<>>, sources |-> <<>>,
     source_url |-> <<>>, source_description |-> <<>>]
VerifierResults == {ResultSourced, ResultUnparsed, ResultEmpty}

(***************************************************************************)
(* State                                                                   *)
(***************************************************************************)
VARIABLES
    now,          \* datetime.utcnow(), in days
    mongoUp,      \* whether the MongoDB server answers
    _client,      \* src/src/db/mongodb.py:14 (NoClient is None)
    _database,    \* src/src/db/mongodb.py:15 (the client it was taken from)
    clients,      \* how many AsyncIOMotorClient objects were constructed
    indexes,      \* names of the indexes of verification_cache
    collection,   \* the documents of verification_cache
    app_context,  \* src/src/app.py:27
    life,         \* where lifespan() stands
    req,          \* per request: the locals of verify_content and callees
    obs,          \* per request: what has happened to it (history)
    first,        \* history: a request that missed, verified and stored
    pair,         \* history: two requests that missed the same key together
    urlA, urlB,   \* two raw URLs handed to normalize_url
    MONGODB_URI,  \* the environment variable read at src/src/db/mongodb.py:23
    content_url,  \* src/main.py: the url argument of verify_content_agent
    parsed_result,\* src/main.py:299: what json.loads made of the output
    outcome       \* what became of parsed_result: the result, the response

vars == <<now, mongoUp, _client, _database, clients, indexes, collection,
          app_context, life, req, obs, first, pair, urlA, urlB, MONGODB_URI,
          content_url, parsed_result, outcome>>

normVars == <<urlA, urlB>>
reconcileVars == <<content_url, parsed_result, outcome>>
systemVars == <<now, mongoUp, _client, _database, clients, indexes, collection,
               app_context, life, req, obs, first, pair, MONGODB_URI>>

NoClient == 0
NoDatabase == 0

NoDoc == [_id |-> 0]
NoResult == [is_correct |-> "unset"]
NoResponse == [status_code |-> 0]
NoFirst == [key |-> <<>>]
NoPair == [key |-> <<>>]
NoParsed == [sources |-> <<>>]
NoOutcome == [state |-> "none"]

\* cache_key is the local of cache.py:95 and 138, at the local now of
\* store_verification (cache.py:140)
IdleReq == [pc |-> "idle", url |-> <<>>, cache_key |-> <<>>, doc |-> NoDoc,
            result |-> NoResult, at |-> 0, response |-> NoResponse]
\* putMeanwhile: a store_verification for the key has written while the
\* get_cached_verification of the request was under way
IdleObs == [calls |-> 0, hit |-> FALSE, hitExpires |-> 0,
            lookupFailed |-> FALSE, storeFailed |-> FALSE, wrote |-> FALSE,
            seen |-> "none", putMeanwhile |-> FALSE]

\* the state after the modules are imported (mongodb.py:14-15, app.py:27)
InitProcess ==
    /\ now = 0
    /\ mongoUp \in BOOLEAN
    /\ _client = NoClient
    /\ _database = NoDatabase
    /\ clients = 0
    /\ indexes = {}
    /\ collection = {}
    /\ app_context = None
    /\ life = "init"
    /\ req = [r \in Requests |-> IdleReq]
    /\ obs = [r \in Requests |-> IdleObs]
    /\ first = NoFirst
    /\ pair = NoPair

\* no output of the verifier is being reconciled
InitNoReconcile ==
    /\ content_url = <<>>
    /\ parsed_result = NoParsed
    /\ outcome = NoOutcome

\* the connection string is configured
InitSystem ==
    /\ InitProcess
    /\ InitNoReconcile
    /\ MONGODB_URI = "set"

Init ==
    /\ InitSystem
    /\ urlA = <<>>
    /\ urlB = <<>>

(***************************************************************************)
(* The environment: the clock and the MongoDB server                       *)
(***************************************************************************)
\* the history forgets the recorded first request once 30 days have passed
\* since it stored, and the requests that came after it with it
Tick ==
    /\ now + TickDays <= MaxTicks * TickDays
    /\ now' = now + TickDays
    /\ IF first # NoFirst /\ now' >= first.stored_at + CACHE_TTL_DAYS
       THEN /\ first' = NoFirst
            /\ obs' = [r \in Requests |-> [obs[r] EXCEPT !.seen = "none"]]
       ELSE UNCHANGED <<first, obs>>
    /\ UNCHANGED <<mongoUp, _client, _database, clients, indexes, collection,
                   app_context, life, req, pair>>
    /\ UNCHANGED <<normVars, MONGODB_URI, reconcileVars>>

MongoGoesDown ==
    /\ mongoUp
    /\ mongoUp' = FALSE
    /\ UNCHANGED <<now, _client, _database, clients, indexes, collection,
                   app_context, life, req, obs, first, pair>>
    /\ UNCHANGED <<normVars, MONGODB_URI, reconcileVars>>

MongoComesUp ==
    /\ ~mongoUp
    /\ mongoUp' = TRUE
    /\ UNCHANGED <<now, _client, _database, clients, indexes, collection,
                   app_context, life, req, obs, first, pair>>
    /\ UNCHANGED <<normVars, MONGODB_URI, reconcileVars>>

\* MongoDB's TTL monitor: with the TTL index of init_indexes.py:27-31
\* (expireAfterSeconds=0) it removes documents whose expires_at has passed
TtlSweep ==
    /\ mongoUp
    /\ "ttl_index_expires_at" \in indexes
    /\ \E d \in collection :
         /\ d.expires_at <= now
         /\ collection' = collection \ {d}
    /\ UNCHANGED <<now, mongoUp, _client, _database, clients, indexes,
                   app_context, life, req, obs, first, pair>>
    /\ UNCHANGED <<normVars, MONGODB_URI, reconcileVars>>

(***************************************************************************)
(* src/src/db/mongodb.py                                                   *)
(***************************************************************************)
\* get_mongodb_uri (lines 18-27): MONGODB_URI is "absent" when the variable
\* is unset or empty, and the URI written in the code stands in for it
HardcodedUri == "hardcoded"
get_mongodb_uri ==
    IF MONGODB_URI = "absent" THEN HardcodedUri ELSE MONGODB_URI

\* line 39: AsyncIOMotorClient raises for a URI it cannot parse, before
\* _client is assigned, and get_database raises without having awaited
ClientRaises ==
    /\ _database = NoDatabase
    /\ _client = NoClient
    /\ get_mongodb_uri = "malformed"

\* get_database() up to its first await: TRUE when it returns a database
\* without awaiting (lines 60, 37, 75), FALSE when connect_to_mongodb has
\* to construct a client and ping (lines 37-47)
DatabaseReady == _database # NoDatabase \/ _client # NoClient

\* a get_database that constructs a client whenever it has no database
GetDatabaseSyncAnew ==
    IF _database # NoDatabase
    THEN UNCHANGED <<_client, _database, clients>>
    ELSE /\ _client' = clients + 1
         /\ clients' = clients + 1
         /\ UNCHANGED _database

\* the globals after that synchronous part
GetDatabaseSync ==
    IF _database # NoDatabase
    THEN UNCHANGED <<_client, _database, clients>>
    ELSE IF _client # NoClient
    THEN /\ _database' = _client
         /\ UNCHANGED <<_client, clients>>
    ELSE /\ _client' = clients + 1
         /\ clients' = clients + 1
         /\ UNCHANGED _database

\* the ping of line 47 answered: connect_to_mongodb returns the global
\* _client (line 51) and get_database takes the database from it (line 75);
\* a _client that close_mongodb_connection reset meanwhile is None and line
\* 75 raises
PingAnswered(ok) ==
    /\ ok = (mongoUp /\ _client # NoClient)
    /\ _database' = IF ok THEN _client ELSE _database
    /\ UNCHANGED <<_client, clients>>

\* a close that forgets the client and keeps the database handle
close_mongodb_connectionKeepsDatabase ==
    IF _client # NoClient
    THEN _client' = NoClient /\ UNCHANGED _database
    ELSE UNCHANGED <<_client, _database>>

close_mongodb_connection ==
    IF _client # NoClient
    THEN _client' = NoClient /\ _database' = NoDatabase
    ELSE UNCHANGED <<_client, _database>>

(***************************************************************************)
(* src/src/app.py lifespan and src/db/init_indexes.py ensure_indexes       *)
(***************************************************************************)
\* lifespan up to the first await of ensure_indexes
Startup ==
    /\ life = "init"
    /\ ~ClientRaises
    /\ app_context' = "ctx"
    /\ GetDatabaseSync
    /\ life' = IF DatabaseReady THEN "index_ttl" ELSE "index_ping"
    /\ UNCHANGED <<now, mongoUp, indexes, collection, req, obs, first, pair>>
    /\ UNCHANGED <<normVars, MONGODB_URI, reconcileVars>>

\* lifespan when get_database raises at once: ensure_indexes swallows the
\* exception (lines 49-52) and the application serves
StartupUnconnected ==
    /\ life = "init"
    /\ ClientRaises
    /\ app_context' = "ctx"
    /\ life' = "serving"
    /\ UNCHANGED <<now, mongoUp, _client, _database, clients, indexes,
                   collection, req, obs, first, pair>>
    /\ UNCHANGED <<normVars, MONGODB_URI, reconcileVars>>

\* the ping of the first get_database; its failure is swallowed by
\* ensure_indexes (lines 49-52) and the application serves without indexes
IndexPing ==
    /\ life = "index_ping"
    /\ \E ok \in BOOLEAN :
         /\ PingAnswered(ok)
         /\ life' = IF ok THEN "index_ttl" ELSE "serving"
    /\ UNCHANGED <<now, mongoUp, indexes, collection, app_context, req, obs,
                   first, pair>>
    /\ UNCHANGED <<normVars, MONGODB_URI, reconcileVars>>

\* a unique index cannot be built over duplicates
CanIndex(name) ==
    /\ mongoUp
    /\ name = "unique_index_cache_key" =>
         \A d, e \in collection : d.cache_key = e.cache_key => d = e

IndexStep(at, name, next) ==
    /\ life = at
    /\ IF CanIndex(name)
       THEN indexes' = indexes \cup {name} /\ life' = next
       ELSE indexes' = indexes /\ life' = "serving"
    /\ UNCHANGED <<now, mongoUp, _client, _database, clients, collection,
                   app_context, req, obs, first, pair>>
    /\ UNCHANGED <<normVars, MONGODB_URI, reconcileVars>>

ensure_indexes ==
    \/ IndexStep("index_ttl", "ttl_index_expires_at", "index_unique")
    \/ IndexStep("index_unique", "unique_index_cache_key", "index_created")
    \/ IndexStep("index_created", "index_created_at", "serving")

\* lifespan after the yield: the server has stopped, no request is running
Shutdown ==
    /\ life = "serving"
    /\ \A r \in Requests : req[r].pc \in {"idle", "done"}
    /\ close_mongodb_connection
    /\ life' = "closed"
    /\ UNCHANGED <<now, mongoUp, clients, indexes, collection, app_context,
                   req, obs, first, pair>>
    /\ UNCHANGED <<normVars, MONGODB_URI, reconcileVars>>

(***************************************************************************)
(* src/src/app.py verify_content: the response (lines 166-206)             *)
(***************************************************************************)
RECURSIVE CleanSources(_)
CleanSources(raw) ==
    IF raw = <<>> THEN <<>>
    ELSE LET url == Strip(Head(raw).source_url)
             desc == Strip(Head(raw).source_description)
         IN  IF url # <<>>
             THEN <<[source_url |-> url, source_description |-> desc]>>
                      \o CleanSources(Tail(raw))
             ELSE CleanSources(Tail(raw))

\* a response that does not read the single top-level source
BuildResponseNoLegacy(result) ==
    [status_code |-> 200,
     is_correct |-> result.is_correct,
     explanation |-> result.explanation,
     sources |-> CleanSources(result.sources),
     source_url |-> IF CleanSources(result.sources) # <<>>
                    THEN CleanSources(result.sources)[1].source_url ELSE <<>>,
     source_description |->
         IF CleanSources(result.sources) # <<>>
         THEN CleanSources(result.sources)[1].source_description ELSE <<>>,
     status |-> "success"]

\* a response that passes the top-level fields of the result on
BuildResponseRaw(result) ==
    [BuildResponseNoLegacy(result) EXCEPT
         !.source_url = result.source_url,
         !.source_description = result.source_description]

BuildResponse(result) ==
    LET raw_sources ==
            IF result.sources = <<>> /\ result.source_url # <<>>
            THEN <<[source_url |-> result.source_url,
                    source_description |-> result.source_description]>>
            ELSE result.sources
        normalized_sources == CleanSources(raw_sources)
    IN  [status_code |-> 200,
         is_correct |-> result.is_correct,
         explanation |-> result.explanation,
         sources |-> normalized_sources,
         source_url |-> IF normalized_sources # <<>>
                        THEN normalized_sources[1].source_url ELSE <<>>,
         source_description |-> IF normalized_sources # <<>>
                                THEN normalized_sources[1].source_description
                                ELSE <<>>,
         status |-> "success"]

\* every HTTPException leaves the endpoint as the generic error
HttpErrorGeneric(code) == [status_code |-> 500]

\* raise HTTPException(status_code=...) (lines 125-128, 210-212)
HttpError(code) == [status_code |-> code]

\* line 155: only a meaningful result is cached
Cacheable(result) == result.is_correct # "null" \/ result.explanation # <<>>

\* line 140: "if cached_result:" on a dict
Truthy(result) == result # <<>>

(***************************************************************************)
(* src/main.py verify_content_agent: the reconciliation of the parsed      *)
(* output (lines 302-357).  A JSON string, null or absent key is a record  *)
(* with a kind; an item of "sources" is an object, a null, or some other   *)
(* JSON value.                                                             *)
(***************************************************************************)
Str(s) == [kind |-> "str", str |-> s]
Null == [kind |-> "null", str |-> <<>>]
Missing == [kind |-> "missing", str |-> <<>>]

\* dict.get(key, "") where the value is not null: the string, or the default
Text(field) == IF field.kind = "str" THEN field.str ELSE <<>>

\* the truth value of dict.get(key): a non-empty string
TruthyField(field) == field.kind = "str" /\ field.str # <<>>

Object(source_url, source_description) ==
    [kind |-> "object", source_url |-> source_url,
     source_description |-> source_description]
\* "(source or {})" is the empty dict for a null item
NullItem == [kind |-> "null", source_url |-> Missing,
             source_description |-> Missing]
\* an item that is true and not an object, such as a non-empty string
OtherItem == [kind |-> "other", source_url |-> Missing,
              source_description |-> Missing]

\* parsed_result.get("sources") or []
SourcesOrEmpty(parsed) ==
    IF parsed.sources.kind = "list" THEN parsed.sources.items ELSE <<>>

\* urlparse(url).netloc.replace("www.", "").lower() (lines 306, 313, 339)
Domain(url) == Lower(RemoveAll(urlparse(url).netloc, WWW))

\* an exception leaves the try block of lines 302-357
Raised == [raised |-> TRUE, normalized_sources |-> <<>>]
Completed(normalized_sources) ==
    [raised |-> FALSE, normalized_sources |-> normalized_sources]

\* a reconciliation that remembers no URL
SeenUrlsNone(normalized_sources) == {}

\* seen_urls holds the source_url of every item appended (lines 329, 351)
SeenUrls(normalized_sources) ==
    {normalized_sources[i].source_url : i \in 1..Len(normalized_sources)}

\* the loop of lines 309-329 over the remaining items
RECURSIVE SourcesLoop(_, _, _)

\* lines 322-328: the item is appended; .strip() of a null description raises
SourceKept(sources, reddit_domain, normalized_sources, source_url) ==
    IF Head(sources).source_description.kind = "null" THEN Raised
    ELSE SourcesLoop(Tail(sources), reddit_domain,
             Append(normalized_sources,
                 [source_url |-> source_url,
                  source_description |->
                      Strip(Text(Head(sources).source_description))]))

\* lines 311-321: the three "continue" tests; urlparse may raise ValueError
SourceChecked(sources, reddit_domain, normalized_sources, source_url) ==
    IF source_url = <<>>
    THEN SourcesLoop(Tail(sources), reddit_domain, normalized_sources)
    ELSE IF RaisesValueError(source_url) THEN Raised
    ELSE IF Domain(source_url) = reddit_domain
    THEN SourcesLoop(Tail(sources), reddit_domain, normalized_sources)
    ELSE IF source_url \in SeenUrls(normalized_sources)
    THEN SourcesLoop(Tail(sources), reddit_domain, normalized_sources)
    ELSE SourceKept(sources, reddit_domain, normalized_sources, source_url)

\* line 310: .get on an item that is not an object raises, and so does
\* .strip() on a null source_url
SourcesLoop(sources, reddit_domain, normalized_sources) ==
    IF sources = <<>> THEN Completed(normalized_sources)
    ELSE IF Head(sources).kind = "other" THEN Raised
    ELSE IF Head(sources).source_url.kind = "null" THEN Raised
    ELSE SourceChecked(sources, reddit_domain, normalized_sources,
                       Strip(Text(Head(sources).source_url)))

\* lines 339-351: the single top-level source is appended as it is written
FallbackChecked(parsed, reddit_domain, fallback_url) ==
    IF RaisesValueError(fallback_url) THEN Raised
    ELSE IF Domain(fallback_url) # <<>> /\ Domain(fallback_url) # reddit_domain
    THEN IF parsed.source_description.kind = "null" THEN Raised
         ELSE Completed(<<[source_url |-> fallback_url,
                           source_description |->
                               Strip(Text(parsed.source_description))]>>)
    ELSE Completed(<<>>)

\* lines 332-337: the fallback runs when the loop kept nothing
Fallback(parsed, reddit_domain, looped) ==
    IF looped.raised THEN Raised
    ELSE IF /\ looped.normalized_sources = <<>>
            /\ TruthyField(parsed.source_url)
            /\ parsed.source_url.str \notin SeenUrls(looped.normalized_sources)
    THEN FallbackChecked(parsed, reddit_domain, parsed.source_url.str)
    ELSE looped

\* normalized_sources[:3] (line 355)
FirstThree(normalized_sources) ==
    SubSeq(normalized_sources, 1,
           IF Len(normalized_sources) < 3 THEN Len(normalized_sources) ELSE 3)

\* lines 302-357 with reddit_domain computed (lines 305-307)
ReconcileWith(parsed, reddit_domain) ==
    Fallback(parsed, reddit_domain,
             SourcesLoop(SourcesOrEmpty(parsed), reddit_domain, <<>>))

\* lines 302-357: what the try block computes for the URL of the post
Reconcile(url, parsed) ==
    IF url = <<>> THEN ReconcileWith(parsed, <<>>)
    ELSE IF RaisesValueError(url) THEN Raised
    ELSE ReconcileWith(parsed, Domain(url))

\* line 357: the parsed output is returned with its "sources" replaced and
\* its other keys as they were
Returned(parsed, normalized_sources) ==
    [parsed EXCEPT !.sources = FirstThree(normalized_sources)]

(***************************************************************************)
(* src/src/app.py verify_content, lines 166-206, on a result whose         *)
(* top-level source_url and source_description may be null or absent       *)
(***************************************************************************)
\* lines 173-179 and 185: the single top-level source is read when "sources"
\* is empty, and .strip() of its null description raises
ResponseRaises(result) ==
    /\ result.sources = <<>>
    /\ TruthyField(result.source_url)
    /\ result.source_description.kind = "null"

\* result.get("source_url", "") and result.get("source_description", "")
PlainResult(result) ==
    [result EXCEPT !.source_url = Text(result.source_url),
                   !.source_description = Text(result.source_description)]

\* lines 166-212: the response, or HTTP 500 for any exception
Respond(result) ==
    IF ResponseRaises(result) THEN HttpError(500)
    ELSE BuildResponse(PlainResult(result))

(***************************************************************************)
(* src/src/db/cache.py: the documents                                      *)
(***************************************************************************)
Matching(key) == {d \in collection : d.cache_key = key}

\* a lookup that takes no entry for expired
IsExpiredNever(doc, t) == FALSE

\* line 106: expires_at and expires_at < datetime.utcnow()
IsExpired(doc, t) == doc.expires_at < t

\* lines 137-150: the document store_verification builds, t its local now
Document(url, result, t) ==
    [cache_key |-> CacheKeyOf[url],
     url |-> NormalizedOf[url],
     result |-> result,
     created_at |-> t,
     expires_at |-> t + CACHE_TTL_DAYS]

\* update_one(..., {"$set": document}) on a document that matched
SetFields(doc, document) ==
    [_id |-> doc._id,
     cache_key |-> document.cache_key,
     url |-> document.url,
     result |-> document.result,
     created_at |-> document.created_at,
     expires_at |-> document.expires_at]

\* an ObjectId nothing refers to
UsedIds == {d._id : d \in collection} \cup {req[r].doc._id : r \in Requests}
FreshIds == {i \in 1..MaxIds : i \notin UsedIds /\ \A j \in 1..(i - 1) : j \in UsedIds}

(***************************************************************************)
(* Requests: each step runs the code from one await to the next            *)
(***************************************************************************)
KeyOf(r) == req[r].cache_key

\* get_cached_verification is under way (cache.py:98-110)
Looking(r) == req[r].pc \in {"lookup_find", "lookup_delete"}

InFlightMiss(r) == req[r].pc \in {"verify", "store_update", "store_insert"}

\* history of two requests that missed one key together: it starts when the
\* second one misses and ends when both have ended; ok says that every one
\* that has ended so far got a result from the verifier and stored it
PairAtMiss(r) ==
    IF pair = NoPair
         /\ \E o \in Requests \ {r} : InFlightMiss(o) /\ KeyOf(o) = KeyOf(r)
    THEN [key |-> KeyOf(r), left |-> Requests, ok |-> TRUE]
    ELSE pair

PairAtEnd(r, stored) ==
    IF pair # NoPair /\ r \in pair.left
    THEN IF pair.left = {r} THEN NoPair
         ELSE [pair EXCEPT !.left = pair.left \ {r}, !.ok = pair.ok /\ stored]
    ELSE pair

\* history for the end-to-end claim: what the lookup of a request that came
\* after the recorded first one, less than 30 days after it stored, finds
SeenAt(r) ==
    IF obs[r].seen = "none" THEN "none"
    ELSE IF \E d \in collection :
              /\ Matching(KeyOf(r)) = {d}
              /\ d.cache_key = first.key
              /\ d.result = first.result
              /\ d.expires_at = first.stored_at + CACHE_TTL_DAYS
    THEN "sole"
    ELSE "other"

\* get_cached_verification returned None (cache.py:102, 110, 119) and
\* app.py:145 calls verify_content_agent
CallVerifier(r, failed, seen) ==
    /\ req' = [req EXCEPT ![r].pc = "verify", ![r].doc = NoDoc]
    /\ obs' = [obs EXCEPT ![r].calls = obs[r].calls + 1,
                          ![r].lookupFailed = failed,
                          ![r].seen = seen,
                          ![r].putMeanwhile = FALSE]
    /\ pair' = PairAtMiss(r)

\* POST /verify arrives (app.py:121-134) and get_cached_verification runs up
\* to its first await (cache.py:91-98)
Arrive(r, u) ==
    /\ req[r].pc \in {"idle", "done"}
    /\ life \in {"init", "serving"}
    /\ app_context = None \/ ~ClientRaises
    /\ IF app_context = None
       THEN /\ req' = [req EXCEPT ![r] = [IdleReq EXCEPT
                         !.pc = "done", !.url = u,
                         !.response = HttpError(503)]]
            /\ UNCHANGED <<_client, _database, clients>>
       ELSE /\ req' = [req EXCEPT ![r] = [IdleReq EXCEPT
                         !.pc = "lookup_find", !.url = u,
                         !.cache_key = LookupKey(r, u)]]
            /\ GetDatabaseSync
    /\ obs' = [obs EXCEPT ![r] = [IdleObs EXCEPT !.seen =
                 IF first # NoFirst /\ first.key = CacheKeyOf[u]
                 THEN "later" ELSE "none"]]
    /\ UNCHANGED <<now, mongoUp, indexes, collection, app_context, life,
                   first, pair, normVars,
                   MONGODB_URI, reconcileVars>>

\* POST /verify arrives and get_database raises at once (cache.py:92):
\* get_cached_verification returns None (cache.py:116-119) and app.py:145
\* calls verify_content_agent
ArriveUnconnected(r, u) ==
    /\ req[r].pc \in {"idle", "done"}
    /\ life \in {"init", "serving"}
    /\ app_context # None
    /\ ClientRaises
    /\ req' = [req EXCEPT ![r] = [IdleReq EXCEPT !.pc = "verify", !.url = u]]
    /\ obs' = [obs EXCEPT ![r] = [IdleObs EXCEPT !.calls = 1,
                                                 !.lookupFailed = TRUE]]
    /\ UNCHANGED <<now, mongoUp, _client, _database, clients, indexes,
                   collection, app_context, life, first, pair, normVars,
                   MONGODB_URI, reconcileVars>>

\* a lookup whose failure reaches the caller
LookupRaises(r) ==
    /\ req[r].pc = "lookup_find"
    /\ ~mongoUp
    /\ req' = [req EXCEPT ![r].pc = "done", ![r].response = HttpError(500)]
    /\ obs' = [obs EXCEPT ![r].lookupFailed = TRUE]
    /\ UNCHANGED <<now, mongoUp, _client, _database, clients, indexes,
                   collection, app_context, life, first, pair, normVars,
                   MONGODB_URI, reconcileVars>>

\* cache.py:98: find_one raises while the server does not answer
LookupFails(r) ==
    /\ req[r].pc = "lookup_find"
    /\ ~mongoUp
    /\ CallVerifier(r, TRUE, obs[r].seen)
    /\ UNCHANGED <<now, mongoUp, _client, _database, clients, indexes,
                   collection, app_context, life, first, normVars,
                   MONGODB_URI, reconcileVars>>

\* a lookup that reports a miss whatever the store holds
LookupMissesAlways(r) ==
    /\ req[r].pc = "lookup_find"
    /\ mongoUp
    /\ CallVerifier(r, FALSE, SeenAt(r))
    /\ UNCHANGED <<now, mongoUp, _client, _database, clients, indexes,
                   collection, app_context, life, first, normVars,
                   MONGODB_URI, reconcileVars>>

\* cache.py:98-102: find_one finds no document
LookupMisses(r) ==
    /\ req[r].pc = "lookup_find"
    /\ mongoUp
    /\ Matching(KeyOf(r)) = {}
    /\ CallVerifier(r, FALSE, SeenAt(r))
    /\ UNCHANGED <<now, mongoUp, _client, _database, clients, indexes,
                   collection, app_context, life, first, normVars,
                   MONGODB_URI, reconcileVars>>

\* a lookup that returns no entry it finds
AfterFindVerifies(r, doc) == CallVerifier(r, FALSE, SeenAt(r))

\* what follows find_one without an await: cache.py:104-114 and, on a hit,
\* app.py:140-142 and 166-206
AfterFind(r, doc) ==
    IF IsExpired(doc, now)
    THEN /\ req' = [req EXCEPT ![r].pc = "lookup_delete", ![r].doc = doc]
         /\ obs' = [obs EXCEPT ![r].seen = SeenAt(r)]
         /\ UNCHANGED pair
    ELSE IF Truthy(doc.result)
    THEN /\ req' = [req EXCEPT ![r].pc = "done",
                               ![r].result = doc.result,
                               ![r].response = BuildResponse(doc.result)]
         /\ obs' = [obs EXCEPT ![r].hit = TRUE,
                               ![r].hitExpires = doc.expires_at,
                               ![r].seen = SeenAt(r),
                               ![r].putMeanwhile = FALSE]
         /\ UNCHANGED pair
    ELSE CallVerifier(r, FALSE, SeenAt(r))

\* a lookup that renews the expiry of the entry it returns
LookupFindsSliding(r) ==
    /\ req[r].pc = "lookup_find"
    /\ mongoUp
    /\ \E doc \in Matching(KeyOf(r)) :
         /\ AfterFind(r, doc)
         /\ collection' =
                IF IsExpired(doc, now) THEN collection
                ELSE (collection \ {doc}) \cup
                         {[doc EXCEPT !.expires_at = now + CACHE_TTL_DAYS]}
    /\ UNCHANGED <<now, mongoUp, _client, _database, clients, indexes,
                   app_context, life, first, normVars,
                   MONGODB_URI, reconcileVars>>

\* cache.py:98: find_one returns one of the documents with the key
LookupFinds(r) ==
    /\ req[r].pc = "lookup_find"
    /\ mongoUp
    /\ \E doc \in Matching(KeyOf(r)) : AfterFind(r, doc)
    /\ UNCHANGED <<now, mongoUp, _client, _database, clients, indexes,
                   collection, app_context, life, first, normVars,
                   MONGODB_URI, reconcileVars>>

\* a removal whose failure reaches the caller
DeleteRaises(r) ==
    /\ req[r].pc = "lookup_delete"
    /\ ~mongoUp
    /\ req' = [req EXCEPT ![r].pc = "done", ![r].doc = NoDoc,
                          ![r].response = HttpError(500)]
    /\ obs' = [obs EXCEPT ![r].lookupFailed = TRUE]
    /\ UNCHANGED <<now, mongoUp, _client, _database, clients, indexes,
                   collection, app_context, life, first, pair, normVars,
                   MONGODB_URI, reconcileVars>>

\* cache.py:109: delete_one raises (cache.py:116-119)
DeleteFails(r) ==
    /\ req[r].pc = "lookup_delete"
    /\ ~mongoUp
    /\ CallVerifier(r, TRUE, obs[r].seen)
    /\ UNCHANGED <<now, mongoUp, _client, _database, clients, indexes,
                   collection, app_context, life, first, normVars,
                   MONGODB_URI, reconcileVars>>

\* cache.py:109-110: delete_one({"_id": doc["_id"]}), then return None
DeleteExpired(r) ==
    /\ req[r].pc = "lookup_delete"
    /\ mongoUp
    /\ collection' = {d \in collection : d._id # req[r].doc._id}
    /\ CallVerifier(r, FALSE, obs[r].seen)
    /\ UNCHANGED <<now, mongoUp, _client, _database, clients, indexes,
                   app_context, life, first, normVars,
                   MONGODB_URI, reconcileVars>>

\* a request that answers with the verifier's result without storing it
VerifierReturnsUnstored(r, result) ==
    /\ req[r].pc = "verify"
    /\ req' = [req EXCEPT ![r].result = result, ![r].pc = "done",
                          ![r].response = BuildResponse(result)]
    /\ pair' = PairAtEnd(r, FALSE)
    /\ UNCHANGED <<now, mongoUp, _client, _database, clients, indexes,
                   collection, app_context, life, obs, first, normVars,
                   MONGODB_URI, reconcileVars>>

\* verify_content_agent returns (main.py:357, 361, 369); app.py:155-164 and
\* cache.py:134-154 up to the first await, or app.py:166-206 when the result
\* is not cached
VerifierReturns(r, result) ==
    /\ req[r].pc = "verify"
    /\ Cacheable(result) => ~ClientRaises
    /\ IF Cacheable(result)
       THEN /\ req' = [req EXCEPT ![r].result = result, ![r].at = now,
                                  ![r].pc = "store_update"]
            /\ GetDatabaseSync
            /\ UNCHANGED pair
       ELSE /\ req' = [req EXCEPT ![r].result = result, ![r].pc = "done",
                                  ![r].response = BuildResponse(result)]
            /\ pair' = PairAtEnd(r, FALSE)
            /\ UNCHANGED <<_client, _database, clients>>
    /\ UNCHANGED <<now, mongoUp, indexes, collection, app_context, life,
                   obs, first, normVars,
                   MONGODB_URI, reconcileVars>>

\* verify_content_agent returns a result to cache and get_database raises at
\* once (cache.py:135): store_verification swallows the exception
\* (cache.py:162-165) and app.py:166-206 answers
StoreUnconnected(r, result) ==
    /\ req[r].pc = "verify"
    /\ Cacheable(result)
    /\ ClientRaises
    /\ req' = [req EXCEPT ![r].result = result, ![r].pc = "done",
                          ![r].response = BuildResponse(result)]
    /\ obs' = [obs EXCEPT ![r].storeFailed = TRUE]
    /\ pair' = PairAtEnd(r, FALSE)
    /\ UNCHANGED <<now, mongoUp, _client, _database, clients, indexes,
                   collection, app_context, life, first, normVars,
                   MONGODB_URI, reconcileVars>>

\* a verifier failure answered with an empty successful result
VerifierFallsBack(r) ==
    /\ req[r].pc = "verify"
    /\ req' = [req EXCEPT ![r].pc = "done",
                          ![r].response = BuildResponse(ResultEmpty)]
    /\ pair' = PairAtEnd(r, FALSE)
    /\ UNCHANGED <<now, mongoUp, _client, _database, clients, indexes,
                   collection, app_context, life, obs, first, normVars,
                   MONGODB_URI, reconcileVars>>

\* verify_content_agent raises (main.py:374-376); app.py:208-212
VerifierRaises(r) ==
    /\ req[r].pc = "verify"
    /\ req' = [req EXCEPT ![r].pc = "done", ![r].response = HttpError(500)]
    /\ pair' = PairAtEnd(r, FALSE)
    /\ UNCHANGED <<now, mongoUp, _client, _database, clients, indexes,
                   collection, app_context, life, obs, first, normVars,
                   MONGODB_URI, reconcileVars>>

\* a write whose failure reaches the caller
StoreRaises(r) ==
    /\ req' = [req EXCEPT ![r].pc = "done", ![r].at = 0,
                          ![r].response = HttpError(500)]
    /\ obs' = [obs EXCEPT ![r].storeFailed = TRUE]
    /\ pair' = PairAtEnd(r, FALSE)
    /\ UNCHANGED <<now, mongoUp, _client, _database, clients, indexes,
                   collection, app_context, life, first, normVars,
                   MONGODB_URI, reconcileVars>>

\* store_verification ends without having written (cache.py:162-165);
\* app.py:166-206
StoreFails(r) ==
    /\ req' = [req EXCEPT ![r].pc = "done", ![r].at = 0,
                          ![r].response = BuildResponse(req[r].result)]
    /\ obs' = [obs EXCEPT ![r].storeFailed = TRUE]
    /\ pair' = PairAtEnd(r, FALSE)
    /\ UNCHANGED <<now, mongoUp, _client, _database, clients, indexes,
                   collection, app_context, life, first, normVars,
                   MONGODB_URI, reconcileVars>>

\* store_verification has written (cache.py:160); app.py:166-206.  With
\* record, the history takes this request as the first one of the end-to-end
\* claim, unless it holds one already; the 30 days count from the time the
\* entry carries (cache.py:140)
StoreDone(r, record) ==
    /\ req' = [req EXCEPT ![r].pc = "done", ![r].at = 0,
                          ![r].response = BuildResponse(req[r].result)]
    /\ obs' = [o \in Requests |->
                 IF o = r THEN [obs[o] EXCEPT !.wrote = TRUE]
                 ELSE IF Looking(o) /\ KeyOf(o) = KeyOf(r)
                 THEN [obs[o] EXCEPT !.putMeanwhile = TRUE]
                 ELSE obs[o]]
    /\ pair' = PairAtEnd(r, TRUE)
    /\ first' = IF record /\ first = NoFirst
                     /\ now < req[r].at + CACHE_TTL_DAYS
                THEN [key |-> KeyOf(r), result |-> req[r].result,
                      stored_at |-> req[r].at,
                      response |-> BuildResponse(req[r].result)]
                ELSE first
    /\ UNCHANGED <<now, mongoUp, _client, _database, clients, indexes,
                   app_context, life, normVars,
                   MONGODB_URI, reconcileVars>>

\* cache.py:154: update_one raises while the server does not answer
UpdateFails(r) ==
    /\ req[r].pc = "store_update"
    /\ ~mongoUp
    /\ StoreFails(r)

\* cache.py:154-158: update_one(upsert=True) finds a document with the key
\* and sets its fields
UpdateMatches(r, record) ==
    /\ req[r].pc = "store_update"
    /\ mongoUp
    /\ \E doc \in Matching(KeyOf(r)) :
         collection' = (collection \ {doc}) \cup
             {SetFields(doc, Document(req[r].url, req[r].result, req[r].at))}
    /\ StoreDone(r, record)

\* cache.py:154-158: update_one(upsert=True) finds no document with the key
\* and goes on to insert one
UpdateMatchesNone(r) ==
    /\ req[r].pc = "store_update"
    /\ mongoUp
    /\ Matching(KeyOf(r)) = {}
    /\ req' = [req EXCEPT ![r].pc = "store_insert"]
    /\ UNCHANGED <<now, mongoUp, _client, _database, clients, indexes,
                   collection, app_context, life, obs, first, pair, normVars,
                   MONGODB_URI, reconcileVars>>

\* the server stops answering before the insert
InsertFails(r) ==
    /\ req[r].pc = "store_insert"
    /\ ~mongoUp
    /\ StoreFails(r)

\* the insert of an upsert that found no document.  Nothing but the unique
\* index on cache_key (init_indexes.py:35-39) makes MongoDB look again: without
\* it the document is inserted beside one that another upsert has inserted
\* meanwhile
InsertDocument(r, record) ==
    /\ req[r].pc = "store_insert"
    /\ mongoUp
    /\ "unique_index_cache_key" \notin indexes \/ Matching(KeyOf(r)) = {}
    /\ \E id \in FreshIds :
         collection' = collection \cup
             {SetFields([_id |-> id],
                        Document(req[r].url, req[r].result, req[r].at))}
    /\ StoreDone(r, record)

\* with the unique index the insert runs into the key another upsert has
\* inserted meanwhile, and the server reports it: DuplicateKeyError, which
\* cache.py:162-165 swallows
InsertDuplicateKey(r) ==
    /\ req[r].pc = "store_insert"
    /\ mongoUp
    /\ "unique_index_cache_key" \in indexes
    /\ Matching(KeyOf(r)) # {}
    /\ StoreFails(r)

\* or the server resolves the duplicate key by retrying the upsert, which
\* now updates the document
InsertRetried(r, record) ==
    /\ req[r].pc = "store_insert"
    /\ mongoUp
    /\ "unique_index_cache_key" \in indexes
    /\ \E doc \in Matching(KeyOf(r)) :
         collection' = (collection \ {doc}) \cup
             {SetFields(doc, Document(req[r].url, req[r].result, req[r].at))}
    /\ StoreDone(r, record)

(***************************************************************************)
(* The application: the store may fail at any time; the history of the     *)
(* end-to-end claim is not kept                                            *)
(***************************************************************************)
Next ==
    \/ Tick
    \/ MongoGoesDown
    \/ MongoComesUp
    \/ TtlSweep
    \/ Startup
    \/ IndexPing
    \/ ensure_indexes
    \/ Shutdown
    \/ \E r \in Requests :
         \/ \E u \in RequestUrls(r) : Arrive(r, u)
         \/ LookupFails(r)
         \/ LookupMisses(r)
         \/ LookupFinds(r)
         \/ DeleteFails(r)
         \/ DeleteExpired(r)
         \/ \E result \in VerifierResults : VerifierReturns(r, result)
         \/ VerifierRaises(r)
         \/ UpdateFails(r)
         \/ UpdateMatches(r, FALSE)
         \/ UpdateMatchesNone(r)
         \/ InsertFails(r)
         \/ InsertDocument(r, FALSE)
         \/ InsertDuplicateKey(r)
         \/ InsertRetried(r, FALSE)

Spec == Init /\ [][Next]_vars

(***************************************************************************)
(* The application with the store available throughout, and the history of *)
(* the end-to-end claim kept                                               *)
(***************************************************************************)
InitAvailable == Init /\ mongoUp

NextAvailable ==
    \/ Tick
    \/ TtlSweep
    \/ Startup
    \/ IndexPing
    \/ ensure_indexes
    \/ Shutdown
    \/ \E r \in Requests :
         \/ \E u \in RequestUrls(r) : Arrive(r, u)
         \/ LookupMisses(r)
         \/ LookupFinds(r)
         \/ DeleteExpired(r)
         \/ \E result \in VerifierResults : VerifierReturns(r, result)
         \/ VerifierRaises(r)
         \/ \E record \in BOOLEAN : UpdateMatches(r, record)
         \/ UpdateMatchesNone(r)
         \/ \E record \in BOOLEAN : InsertDocument(r, record)
         \/ InsertDuplicateKey(r)
         \/ \E record \in BOOLEAN : InsertRetried(r, record)

SpecAvailable == InitAvailable /\ [][NextAvailable]_vars

(***************************************************************************)
(* The application started without a usable MONGODB_URI: the variable is   *)
(* unset, or holds a string that is no MongoDB URI.  The server that the   *)
(* URI in use names answers throughout.                                    *)
(***************************************************************************)
InitUnconfigured ==
    /\ InitProcess
    /\ InitNoReconcile
    /\ mongoUp
    /\ MONGODB_URI \in {"absent", "malformed"}
    /\ urlA = <<>>
    /\ urlB = <<>>

NextUnconfigured ==
    \/ NextAvailable
    \/ StartupUnconnected
    \/ \E r \in Requests :
         \/ \E u \in RequestUrls(r) : ArriveUnconnected(r, u)
         \/ \E result \in VerifierResults : StoreUnconnected(r, result)

SpecUnconfigured == InitUnconfigured /\ [][NextUnconfigured]_vars

(***************************************************************************)
(* normalize_url and generate_cache_key on pairs of raw URLs: urlB is      *)
(* urlA respelled, one difference at a time                                *)
(***************************************************************************)
\* urlB holds at most MaxUpper capital letters
MaxUpper == 2

BaseUrls ==
    { <<"h", "t", "t", "p", ":", "/", "/", "a", ".", "b", "/", "p">>,
      <<"h", "t", "t", "p", ":", "/", "/", "a", ".", "b">>,
      <<"a", ".", "b", "/", "p">>,
      <<"a", ".", "b">> }

UpperChar(c) == CHOOSE u \in UpperChars : LowerChar(u) = c

\* where the host starts: behind "://", or at the start of a URL without one
HostStart(url) ==
    LET at == {i \in 1..(Len(url) - 2) :
                 SubSeq(url, i, i + 2) = <<":", "/", "/">>}
    IN  IF at = {} THEN 1 ELSE (CHOOSE i \in at : \A j \in at : i <= j) + 3

\* where the path ends: before the first "?" or "#", or at the end
PathEnd(url) ==
    LET ds == {i \in 1..Len(url) : url[i] \in {"?", "#"}}
    IN  IF ds = {} THEN Len(url)
        ELSE (CHOOSE i \in ds : \A j \in ds : i <= j) - 1

InsertAt(url, i, s) == SubSeq(url, 1, i - 1) \o s \o From(url, i)

InitNorm ==
    /\ InitSystem
    /\ ~mongoUp
    /\ urlA \in BaseUrls
    /\ urlB = urlA

\* a difference in letter case
VaryCase ==
    /\ Cardinality({i \in 1..Len(urlB) : urlB[i] \in UpperChars}) < MaxUpper
    /\ \E i \in 1..Len(urlB) :
         /\ urlB[i] \in {LowerChar(u) : u \in UpperChars}
         /\ urlB' = [urlB EXCEPT ![i] = UpperChar(urlB[i])]
    /\ UNCHANGED <<urlA, systemVars, reconcileVars>>

\* a "www." host prefix
AddWww ==
    /\ ~StartsWith(Lower(From(urlB, HostStart(urlB))), WWW)
    /\ urlB' = InsertAt(urlB, HostStart(urlB), WWW)
    /\ UNCHANGED <<urlA, systemVars, reconcileVars>>

\* a trailing slash
AddSlash ==
    /\ urlB[PathEnd(urlB)] # "/"
    /\ urlB' = InsertAt(urlB, PathEnd(urlB) + 1, <<"/">>)
    /\ UNCHANGED <<urlA, systemVars, reconcileVars>>

\* a query string
AddQuery ==
    /\ Find(urlB, "?", 1) = 0
    /\ urlB' = InsertAt(urlB, PathEnd(urlB) + 1, <<"?", "q">>)
    /\ UNCHANGED <<urlA, systemVars, reconcileVars>>

\* a fragment
AddFragment ==
    /\ Find(urlB, "#", 1) = 0
    /\ urlB' = urlB \o <<"#", "f">>
    /\ UNCHANGED <<urlA, systemVars, reconcileVars>>

NextNorm ==
    \/ VaryCase
    \/ AddWww
    \/ AddSlash
    \/ AddQuery
    \/ AddFragment

SpecNorm == InitNorm /\ [][NextNorm]_vars

\* C10: two raw URLs that differ only in letter case, a "www." host prefix, a
\* trailing slash, the query string or the fragment get the same normalized
\* URL and the same cache key, with and without a scheme
C10_SpellingsAgree ==
    /\ normalize_url(urlA) = normalize_url(urlB)
    /\ generate_cache_key(urlA) = generate_cache_key(urlB)

\* C13: generate_cache_key is the hash of normalize_url of the raw URL and
\* depends on nothing else: two raw URLs get the same key exactly when their
\* normalized URLs are equal (the hash being injective)
C13_KeyIsHashOfNormalized ==
    /\ generate_cache_key(urlA) = Sha256(normalize_url(urlA))
    /\ generate_cache_key(urlB) = Sha256(normalize_url(urlB))
    /\ generate_cache_key(urlA) = generate_cache_key(urlB)
          <=> normalize_url(urlA) = normalize_url(urlB)

\* two different raw URLs with one normalized URL and one key
C13_Witness ==
    /\ urlA # urlB
    /\ Lower(urlA) # Lower(urlB)
    /\ normalize_url(urlA) = normalize_url(urlB)
    /\ generate_cache_key(urlA) = generate_cache_key(urlB)

(***************************************************************************)
(* normalize_url on pairs of URLs whose hosts differ by "www." somewhere:  *)
(* urlB is urlA with "www." inserted into its host                         *)
(***************************************************************************)
\* "www." is inserted into the host of urlB at most MaxWww times
MaxWww == 2

\* the position behind the host: the first "/", "?" or "#" behind HostStart
HostEnd(url) ==
    LET ds == {i \in HostStart(url)..Len(url) : url[i] \in {"/", "?", "#"}}
    IN  IF ds = {} THEN Len(url) + 1 ELSE CHOOSE i \in ds : \A j \in ds : i <= j

\* the host as written, in lower case
HostOf(url) == Lower(SubSeq(url, HostStart(url), HostEnd(url) - 1))

\* the host without a leading "www."
WithoutLeadingWww(host) ==
    IF StartsWith(host, WWW) THEN From(host, Len(WWW) + 1) ELSE host

InitHosts ==
    /\ InitSystem
    /\ ~mongoUp
    /\ urlA \in {u \in BaseUrls : HostStart(u) > 1}
    /\ urlB = urlA

\* "www." at any place of the host, its start included
InsertWww ==
    /\ Len(urlB) < Len(urlA) + MaxWww * Len(WWW)
    /\ \E i \in HostStart(urlB)..HostEnd(urlB) :
         urlB' = InsertAt(urlB, i, WWW)
    /\ UNCHANGED <<urlA, systemVars, reconcileVars>>

NextHosts ==
    \/ InsertWww
    \/ VaryCase

SpecHosts == InitHosts /\ [][NextHosts]_vars

\* C11: normalize_url strips only a leading "www." of the host: two URLs
\* that normalize to the same string have hosts that differ by no more than
\* a leading "www."
C11_OnlyLeadingWwwStripped ==
    normalize_url(urlA) = normalize_url(urlB) =>
       WithoutLeadingWww(HostOf(urlA)) = WithoutLeadingWww(HostOf(urlB))

(***************************************************************************)
(* normalize_url on arbitrary strings: urlB is typed character by          *)
(* character                                                               *)
(***************************************************************************)
\* urlB has at most MaxRaw characters
MaxRaw == 5

RawChars == {"/", "[", "]", ":", ".", " ", "a", "A"}

InitRaw ==
    /\ InitSystem
    /\ ~mongoUp
    /\ urlA = <<>>
    /\ urlB = <<>>

TypeChar ==
    /\ Len(urlB) < MaxRaw
    /\ \E c \in RawChars : urlB' = Append(urlB, c)
    /\ UNCHANGED <<urlA, systemVars, reconcileVars>>

NextRaw == TypeChar

SpecRaw == InitRaw /\ [][NextRaw]_vars

\* C12: normalize_url is total: for every string it returns a string, the
\* empty string for the empty string, and the lowercased, trimmed raw
\* string for a string that urlparse refuses
C12_NormalizeTotal ==
    /\ normalize_url(urlB) \in Seq({LowerChar(c) : c \in RawChars})
    /\ urlB = <<>> => normalize_url(urlB) = <<>>
    /\ RaisesValueError(Strip(Lower(urlB))) =>
          normalize_url(urlB) = Strip(Lower(urlB))

\* a string that urlparse refuses, returned lowercased and trimmed, which is
\* neither the string itself nor what rebuilding its parts would give
C12_Witness ==
    /\ RaisesValueError(Strip(Lower(urlB)))
    /\ normalize_url(urlB) = Strip(Lower(urlB))
    /\ normalize_url(urlB) # urlB
    /\ normalize_url(urlB) # normalize_urlUnguarded(urlB)

\* C37: normalize_url is idempotent: normalizing a normalized URL gives it
\* back, so the url an entry stores re-derives the cache_key of the entry
C37_NormalizeIdempotent ==
    /\ normalize_url(normalize_url(urlB)) = normalize_url(urlB)
    /\ generate_cache_key(normalize_url(urlB)) = generate_cache_key(urlB)

\* the raw string with one more slash typed at its end
WithSlash == urlB \o <<"/">>

\* urlparse accepts the raw string with and without the added slash, and
\* the added slash lands at the end of the path, the other parts unchanged
SlashJoinsPath ==
    LET p == urlparse(Strip(Lower(urlB)))
        q == urlparse(Strip(Lower(WithSlash)))
    IN  /\ ~RaisesValueError(Strip(Lower(urlB)))
        /\ ~RaisesValueError(Strip(Lower(WithSlash)))
        /\ q.scheme = p.scheme
        /\ q.netloc = p.netloc
        /\ q.path = p.path \o <<"/">>

\* the path of the raw string already ends in a slash
PathEndsInSlash ==
    LET path == urlparse(Strip(Lower(urlB))).path
    IN  path # <<>> /\ path[Len(path)] = "/"

\* C39 as stated: normalize_url removes a single trailing slash from the
\* path, so a URL whose path ends in two or more slashes keeps all but the
\* last one
C39_AllButLastSlashKept ==
    (SlashJoinsPath /\ PathEndsInSlash) =>
        LET q == urlparse(Strip(Lower(WithSlash)))
        IN  normalize_url(WithSlash) =
                urlunparse(q.scheme, RemoveAll(q.netloc, WWW),
                           SubSeq(q.path, 1, Len(q.path) - 1))

\* C39: normalize_url removes every trailing slash of the path of a URL that
\* urlparse accepts: one more slash at the end of the path, after none, one
\* or several, leaves the normalized URL what it was
C39_EveryTrailingSlashRemoved ==
    SlashJoinsPath => normalize_url(WithSlash) = normalize_url(urlB)

\* a path of a segment and a slash gets a second slash, and the normalized
\* URL ends in the segment
C39_Witness ==
    /\ SlashJoinsPath
    /\ PathEndsInSlash
    /\ normalize_url(WithSlash) = normalize_url(urlB)
    /\ normalize_url(WithSlash) # <<>>
    /\ normalize_url(WithSlash)[Len(normalize_url(WithSlash))] = "a"

(***************************************************************************)
(* The reconciliation and the response on outputs of the verifier built    *)
(* item by item: content_url is the URL of the post, parsed_result the     *)
(* parsed output, outcome what verify_content answers for them.  The store *)
(* between the two (app.py:155-160) does not change the result.            *)
(***************************************************************************)
\* "sources" has at most MaxCandidates items; the first MaxMixed of them are
\* of any shape, the ones after are well-formed and of new hosts
MaxCandidates == 5
MaxMixed == 2

Http == <<"h", "t", "t", "p", ":", "/", "/">>
Pad == <<" ">>
OriginalUrls ==
    { Http \o <<"a", ".", "b", "/", "p">>,
      Http \o <<"w", "w", "w", ".", "a", ".", "b", "/", "p">> }
\* URLs of the host of the post, in several spellings
SameHostUrls ==
    { Http \o <<"a", ".", "b", "/", "q">>,
      Http \o <<"w", "w", "w", ".", "a", ".", "b", "/", "q">>,
      Http \o <<"W", "W", "W", ".", "a", ".", "b", "/", "q">>,
      Http \o <<"A", ".", "b", "/", "q">> }
\* the n-th URL of another host
OtherHosts == <<"c", "d", "f", "h", "p", "q", "s", "t">>
OtherUrl(n) == Http \o <<OtherHosts[n], ".", "a">>
Described == Str(<<"d">>)

\* items the loop cannot keep, and items on which it raises
MalformedItems(n) ==
    { NullItem, OtherItem,
      Object(Null, Described), Object(Missing, Described),
      Object(Str(Pad), Described),
      Object(Str(<<"/", "/", "[">>), Described),
      Object(Str(OtherUrl(n)), Null), Object(Str(OtherUrl(n)), Missing) }

\* the top-level source_url and source_description of the older format
LegacyFields ==
    { <<Missing, Missing>>,
      <<Str(OtherUrl(1)), Described>>,
      <<Str(Pad \o OtherUrl(1) \o Pad), Str(Pad \o <<"d">> \o Pad)>>,
      <<Str(OtherUrl(1)), Missing>>,
      <<Str(OtherUrl(1)), Null>>,
      <<Str(<<"c", ".", "a", "/", "p">>), Described>>,
      <<Str(Pad), Described>>,
      <<Str(Http \o <<"w", "w", "w", ".", "a", ".", "b", "/", "q">>),
        Described>> }

InitReconcile ==
    /\ InitProcess
    /\ ~mongoUp
    /\ MONGODB_URI = "set"
    /\ urlA = <<>>
    /\ urlB = <<>>
    /\ content_url \in OriginalUrls
    /\ \E kind \in {"missing", "null", "list"}, legacy \in LegacyFields :
         parsed_result =
             [is_correct |-> "true", explanation |-> <<"e">>,
              sources |-> [kind |-> kind, items |-> <<>>],
              source_url |-> legacy[1], source_description |-> legacy[2]]
    /\ outcome = NoOutcome

Candidates == parsed_result.sources.items

AddItem(item) ==
    /\ outcome = NoOutcome
    /\ parsed_result.sources.kind = "list"
    /\ Len(Candidates) < MaxCandidates
    /\ parsed_result' =
           [parsed_result EXCEPT !.sources.items = Append(@, item)]
    /\ UNCHANGED <<content_url, outcome, normVars, systemVars>>

\* a well-formed candidate of a host not used before
AddFresh ==
    /\ Len(Candidates) < MaxCandidates
    /\ AddItem(Object(Str(OtherUrl(Len(Candidates) + 1)), Described))

\* the same with whitespace around both values
AddUntrimmed ==
    /\ Len(Candidates) < MaxMixed
    /\ AddItem(Object(Str(Pad \o OtherUrl(Len(Candidates) + 1) \o Pad),
                      Str(Pad \o <<"d">> \o Pad)))

\* the URL of an earlier candidate again, as it was or with whitespace
\* around it, under another description
AddRepeat ==
    /\ Len(Candidates) < MaxMixed
    /\ \E j \in 1..Len(Candidates), pad \in {<<>>, Pad} :
         /\ TruthyField(Candidates[j].source_url)
         /\ AddItem(Object(Str(pad \o Strip(Candidates[j].source_url.str)
                                   \o pad),
                           Str(<<"x">>)))

\* a candidate of the host of the post
AddSameHost ==
    /\ Len(Candidates) < MaxMixed
    /\ \E u \in SameHostUrls : AddItem(Object(Str(u), Described))

AddMalformed ==
    /\ Len(Candidates) < MaxMixed
    /\ \E item \in MalformedItems(Len(Candidates) + 1) : AddItem(item)

\* verify_content_agent returned this result (main.py:357)
AgentReturned(result) ==
    [state |-> "done", raised |-> FALSE, result |-> result,
     response |-> Respond(result)]
\* an exception left verify_content_agent (main.py:374-376, app.py:208-212)
AgentRaised ==
    [state |-> "done", raised |-> TRUE, result |-> NoResult,
     response |-> HttpError(500)]

Outcome(url, parsed) ==
    IF Reconcile(url, parsed).raised THEN AgentRaised
    ELSE AgentReturned(Returned(parsed,
                                Reconcile(url, parsed).normalized_sources))

\* app.py:145-206: the verifier is called and its result answered
VerifyContent ==
    /\ outcome = NoOutcome
    /\ outcome' = Outcome(content_url, parsed_result)
    /\ UNCHANGED <<content_url, parsed_result, normVars, systemVars>>

NextReconcile ==
    \/ AddFresh
    \/ AddUntrimmed
    \/ AddRepeat
    \/ AddSameHost
    \/ AddMalformed
    \/ VerifyContent

SpecReconcile == InitReconcile /\ [][NextReconcile]_vars

\* the host of a URL in lower case without a leading "www."
BareHost(url) == WithoutLeadingWww(Lower(urlparse(url).netloc))

\* verify_content_agent returned a result for the output
Reconciled == outcome.state = "done" /\ ~outcome.raised
\* the candidates of the output in order
Kept == outcome.result.sources

\* C14: no source of the reconciled result has the host of the post, the
\* hosts compared in lower case and without a leading "www.", whatever the
\* letter case of the candidate's host
C14_SameHostDiscarded ==
    Reconciled =>
        \A i \in 1..Len(Kept) :
            BareHost(Kept[i].source_url) # BareHost(content_url)

\* the candidates of the output whose source_url is url once trimmed
Spelling(url) ==
    {j \in 1..Len(Candidates) :
        /\ Candidates[j].kind = "object"
        /\ Candidates[j].source_url.kind = "str"
        /\ Strip(Candidates[j].source_url.str) = url}
FirstSpelling(url) ==
    CHOOSE j \in Spelling(url) : \A k \in Spelling(url) : j <= k

\* C15: the reconciled sources hold no source_url twice, compared trimmed,
\* and a source whose URL several candidates spell is the first of these
\* candidates
C15_NoDuplicateSources ==
    Reconciled =>
        /\ \A i, j \in 1..Len(Kept) :
               Strip(Kept[i].source_url) = Strip(Kept[j].source_url) => i = j
        /\ \A i \in 1..Len(Kept) :
               Spelling(Strip(Kept[i].source_url)) # {} =>
                   Kept[i].source_description =
                       Strip(Text(Candidates[FirstSpelling(
                           Strip(Kept[i].source_url))].source_description))

\* two candidates differ only in surrounding whitespace and one is kept
C15_Witness ==
    /\ Reconciled
    /\ \E i \in 1..Len(Kept) :
         /\ Cardinality(Spelling(Kept[i].source_url)) > 1
         /\ \E j, k \in Spelling(Kept[i].source_url) :
              /\ Candidates[j].source_url # Candidates[k].source_url
              /\ Candidates[j].source_description
                     # Candidates[k].source_description

\* the request was answered with a result
Answered == outcome.state = "done" /\ outcome.response.status_code = 200

\* a candidate with a source_url that is not empty once trimmed and whose
\* host is not the host of the post
Valid(item) ==
    /\ item.kind = "object"
    /\ item.source_url.kind = "str"
    /\ Strip(item.source_url.str) # <<>>
    /\ BareHost(Strip(item.source_url.str)) # BareHost(content_url)

Trimmed(item) ==
    [source_url |-> Strip(item.source_url.str),
     source_description |-> Strip(Text(item.source_description))]

\* the valid candidates in order, each URL once
RECURSIVE Survivors(_, _)
Survivors(items, accepted) ==
    IF items = <<>> THEN accepted
    ELSE IF /\ Valid(Head(items))
            /\ \A i \in 1..Len(accepted) :
                   accepted[i].source_url # Strip(Head(items).source_url.str)
    THEN Survivors(Tail(items), Append(accepted, Trimmed(Head(items))))
    ELSE Survivors(Tail(items), accepted)

\* the single top-level source stands in when no candidate of the list
\* survives
Surviving ==
    IF Survivors(SourcesOrEmpty(parsed_result), <<>>) # <<>>
    THEN Survivors(SourcesOrEmpty(parsed_result), <<>>)
    ELSE Survivors(<<Object(parsed_result.source_url,
                            parsed_result.source_description)>>, <<>>)

\* C16: the sources of an answered request are at most 3 and are the first
\* (up to) 3 surviving candidates in their original order
C16_FirstThreeSurvivors ==
    Answered =>
        /\ Len(outcome.response.sources) <= 3
        /\ outcome.response.sources = FirstThree(Surviving)

\* the output has no list of sources and a top-level source_url of a host
\* that is not the post's
LegacyOnly ==
    /\ outcome.state = "done"
    /\ SourcesOrEmpty(parsed_result) = <<>>
    /\ TruthyField(parsed_result.source_url)
    /\ BareHost(Strip(parsed_result.source_url.str)) # BareHost(content_url)

\* the response holds this one source, in its list and at its top level
AnsweredWithOnly(source_url, source_description) ==
    /\ outcome.response.status_code = 200
    /\ outcome.response.sources =
           <<[source_url |-> source_url,
              source_description |-> source_description]>>
    /\ outcome.response.source_url = source_url
    /\ outcome.response.source_description = source_description

\* C17 as stated: an output with only a top-level source_url, and a
\* source_description that is a string or absent, is answered with the two
\* values as written, as the one source and at the top level
C17_LegacyUpgradedAsWritten ==
    (LegacyOnly /\ parsed_result.source_description.kind # "null") =>
        AnsweredWithOnly(parsed_result.source_url.str,
                         Text(parsed_result.source_description))

\* C17: an output with only a top-level source_url that is not blank, and a
\* source_description that is a string or absent, is answered with the two
\* values trimmed, as the one source and at the top level
C17_LegacyUpgradedTrimmed ==
    (/\ LegacyOnly
     /\ Strip(parsed_result.source_url.str) # <<>>
     /\ parsed_result.source_description.kind # "null") =>
        AnsweredWithOnly(Strip(parsed_result.source_url.str),
                         Strip(Text(parsed_result.source_description)))

\* an output with only a padded top-level source was answered
C17_Witness ==
    /\ LegacyOnly
    /\ Strip(parsed_result.source_url.str) # parsed_result.source_url.str
    /\ parsed_result.source_description.kind = "str"
    /\ Answered
    /\ Len(outcome.response.sources) = 1

\* C18: in an answered request the top-level source_url and
\* source_description are those of the first source, and both are empty
\* when there is no source
C18_TopLevelIsFirstSource ==
    Answered =>
        IF outcome.response.sources # <<>>
        THEN /\ outcome.response.source_url =
                    outcome.response.sources[1].source_url
             /\ outcome.response.source_description =
                    outcome.response.sources[1].source_description
        ELSE /\ outcome.response.source_url = <<>>
             /\ outcome.response.source_description = <<>>

\* the output names one source at its top level and others in its list
C18_Witness ==
    /\ Answered
    /\ Len(outcome.response.sources) > 1
    /\ TruthyField(parsed_result.source_url)
    /\ parsed_result.source_url.str # outcome.response.sources[1].source_url

\* C19: whatever the shape of the parsed output, the reconciliation returns
\* a result and the request is answered with it, never with an error
C19_ReconciliationNeverFails ==
    outcome.state = "done" =>
        /\ ~outcome.raised
        /\ outcome.response.status_code = 200

\* C20: without a usable MONGODB_URI the application runs with no caching:
\* no request is answered from the store and no entry is written
C20_NoCachingWhenUnconfigured ==
    MONGODB_URI \in {"absent", "malformed"} =>
        /\ collection = {}
        /\ \A r \in Requests : ~obs[r].hit /\ ~obs[r].wrote

\* source_url is of the host of the post
OfPostHost(source_url) == BareHost(source_url) = BareHost(content_url)

\* C24: no source of a response, in its list or as its top-level
\* source_url, has the host of the post, the hosts compared in lower case
\* and without a leading "www.", also when the reconciled list is empty and
\* the output carries a top-level source_url
C24_NoSourceOfPostHost ==
    Answered =>
        /\ \A i \in 1..Len(outcome.response.sources) :
               ~OfPostHost(outcome.response.sources[i].source_url)
        /\ outcome.response.source_url # <<>> =>
               ~OfPostHost(outcome.response.source_url)

\* no candidate of the list of the output survives the filtering
NoSurvivor == Survivors(SourcesOrEmpty(parsed_result), <<>>) = <<>>

\* the output carries a top-level source_url that is not empty and has a
\* host, which is not the host of the post
PlausibleCitation ==
    /\ TruthyField(parsed_result.source_url)
    /\ BareHost(parsed_result.source_url.str) # <<>>
    /\ ~OfPostHost(parsed_result.source_url.str)

\* C28: when no candidate of the list survives and the output carries a
\* top-level source_url that is not empty and is of another host than the
\* post, the sources of the result are exactly that one source: it is never
\* dropped
C28_LastResortRecovery ==
    (outcome.state = "done" /\ NoSurvivor /\ PlausibleCitation) =>
        /\ Reconciled
        /\ Len(Kept) = 1
        /\ Kept[1].source_url = parsed_result.source_url.str
        /\ Kept[1].source_description =
               Strip(Text(parsed_result.source_description))

\* every source of the list has a source_url that is not empty and both
\* fields without whitespace around them
AllTrimmed(sources) ==
    \A i \in 1..Len(sources) :
       /\ sources[i].source_url # <<>>
       /\ Strip(sources[i].source_url) = sources[i].source_url
       /\ Strip(sources[i].source_description) = sources[i].source_description

\* C38: every source of a returned result, the one verify_content_agent
\* returns and the one the request is answered with, has a source_url that
\* is not empty and has no whitespace around it, and a source_description
\* with no whitespace around it
C38_SourcesTrimmed ==
    /\ Reconciled => AllTrimmed(Kept)
    /\ Answered => AllTrimmed(outcome.response.sources)

(***************************************************************************)
(* Properties of the lookup, the write and the request                     *)
(***************************************************************************)
EntriesAfter(key) == {d \in collection' : d.cache_key = key}

Storing(r) == req[r].pc \in {"store_update", "store_insert"}

\* the step in which the store_verification of r writes
Writes(r) == obs'[r].wrote /\ ~obs[r].wrote

\* C1: get_cached_verification never returns the payload of an entry whose
\* expires_at is strictly earlier than the current time, whether or not the
\* expiry sweep has run: the step that returns a payload returns the one of
\* an entry of the key that is not expired at that time
C1_NeverReturnsExpired ==
    [][\A r \in Requests :
         (obs'[r].hit /\ ~obs[r].hit) =>
            /\ ~(obs'[r].hitExpires < now)
            /\ \E d \in Matching(KeyOf(r)) :
                 /\ d.expires_at = obs'[r].hitExpires
                 /\ req'[r].result = d.result]_vars

\* a lookup has found an expired entry that no sweep has removed, and has
\* not returned it
C1_Witness ==
    \E r \in Requests :
       /\ req[r].pc = "lookup_delete"
       /\ req[r].doc \in collection
       /\ req[r].doc.expires_at < now
       /\ ~obs[r].hit

\* C3: get_cached_verification never raises: after a failure of the store in
\* the lookup the request has gone on as after a miss: it has called the
\* verifier once, has returned nothing from the cache, and ends with the
\* verifier's result, or with the verifier's error
C3_LookupFailureIsMiss ==
    \A r \in Requests :
       obs[r].lookupFailed =>
          /\ obs[r].calls = 1
          /\ ~obs[r].hit
          /\ req[r].pc \in {"verify", "store_update", "store_insert", "done"}
          /\ req[r].pc = "done" =>
                IF req[r].result = NoResult
                THEN req[r].response = HttpError(500)
                ELSE req[r].response = BuildResponse(req[r].result)

\* a request whose lookup failed has ended as a miss does: with the
\* verifier's result, stored
C3_Witness ==
    \E r \in Requests :
       /\ obs[r].lookupFailed
       /\ obs[r].wrote
       /\ req[r].pc = "done"
       /\ req[r].response.status_code = 200

\* C4: store_verification never raises: the step in which the write fails
\* leaves the store as it is and ends the request with the verifier's result
\* as a successful response
C4_WriteFailureSwallowed ==
    [][\A r \in Requests :
         (obs'[r].storeFailed /\ ~obs[r].storeFailed) =>
            /\ collection' = collection
            /\ req'[r].pc = "done"
            /\ req'[r].response = BuildResponse(req[r].result)
            /\ req'[r].response.status_code = 200
            /\ req'[r].response.status = "success"]_vars

\* a request whose write failed has ended with a successful response
C4_Witness ==
    \E r \in Requests :
       /\ obs[r].storeFailed
       /\ ~obs[r].wrote
       /\ req[r].pc = "done"
       /\ req[r].response.status_code = 200

\* C5: while the store is unavailable every step of a request at the store
\* goes on without failing the request: a lookup step goes on to the
\* verifier, a write step ends the request with the verifier's result as a
\* successful response
C5_OutageDegradesToMiss ==
    [][\A r \in Requests :
         (~mongoUp /\ req'[r] # req[r]) =>
            /\ req[r].pc \in {"lookup_find", "lookup_delete"} =>
                  /\ req'[r].pc = "verify"
                  /\ obs'[r].calls = obs[r].calls + 1
            /\ Storing(r) =>
                  /\ req'[r].pc = "done"
                  /\ req'[r].response = BuildResponse(req[r].result)
                  /\ req'[r].response.status_code = 200
            /\ req[r].pc = "verify" /\ req'[r].result # NoResult =>
                  \/ Storing(r)'
                  \/ req'[r].response.status_code = 200]_vars

\* the first connection attempt failed, no index was created, and a request
\* both of whose store calls failed has ended with a successful response
\* during the outage
C5_Witness ==
    \E r \in Requests :
       /\ ~mongoUp
       /\ indexes = {}
       /\ life = "serving"
       /\ obs[r].lookupFailed
       /\ obs[r].storeFailed
       /\ obs[r].calls = 1
       /\ req[r].pc = "done"
       /\ req[r].response.status_code = 200

\* C6: when the verifier call fails, the request ends with an error, not
\* with a successful result, and the store is unchanged: the request has
\* created or modified no entry
C6_VerifierFailurePropagates ==
    [][\A r \in Requests :
         (req[r].pc = "verify" /\ req'[r].pc = "done"
            /\ req'[r].result = NoResult) =>
            /\ req'[r].response = HttpError(500)
            /\ collection' = collection
            /\ ~obs'[r].wrote]_vars

\* a request has ended with the verifier's error beside an entry of the store
C6_Witness ==
    \E r \in Requests :
       /\ req[r].pc = "done"
       /\ req[r].response = HttpError(500)
       /\ obs[r].calls = 1
       /\ collection # {}

\* C7: a store_verification for a key that has an entry already, with no
\* other store_verification under way, leaves exactly one entry for the key,
\* with the payload and the expires_at of this call
C7_SecondStoreReplaces ==
    [][\A r \in Requests :
         (/\ Writes(r)
          /\ req[r].pc = "store_update"
          /\ Matching(KeyOf(r)) # {}
          /\ \A o \in Requests \ {r} : ~Storing(o)) =>
            \E d \in collection' :
               /\ EntriesAfter(KeyOf(r)) = {d}
               /\ d.result = req[r].result
               /\ d.expires_at = req[r].at + CACHE_TTL_DAYS]_vars

\* C8: in every reachable state, under any interleaving of concurrent
\* store_verification calls, the store holds at most one entry per cache_key
C8_OneEntryPerKey ==
    \A d1, d2 \in collection : d1.cache_key = d2.cache_key => d1 = d2

\* C9: two requests for one URL that both missed before either completed
\* have each called the verifier and each upserted; when the second of them
\* has written there is exactly one entry for the key, with the result of
\* that last upsert
C9_LastWriterWins ==
    [][\A r \in Requests :
         (/\ pair # NoPair
          /\ pair.left = {r}
          /\ pair.ok
          /\ Writes(r)) =>
            \E d \in collection' :
               /\ EntriesAfter(KeyOf(r)) = {d}
               /\ d.result = req[r].result]_vars

\* the step in which the get_cached_verification of r has removed the
\* expired entry it found and returns (cache.py:109-110)
Removes(r) ==
    /\ req[r].pc = "lookup_delete"
    /\ req'[r].pc = "verify"
    /\ ~obs'[r].lookupFailed

\* C21: when a get_cached_verification that found an expired entry returns
\* without a failure of the store, and no store_verification for the key ran
\* beside it, the store holds no entry for the key and every entry of
\* another key is as it was
C21_ExpiredEntryRemoved ==
    [][\A r \in Requests :
         (/\ Removes(r)
          /\ ~obs[r].putMeanwhile
          /\ \A o \in Requests \ {r} : ~Storing(o)) =>
            /\ EntriesAfter(KeyOf(r)) = {}
            /\ collection' \subseteq collection
            /\ \A d \in collection :
                   d.cache_key # KeyOf(r) => d \in collection']_vars

\* the step in which verify_content_agent returns a result to r after a miss
Verified(r) == req[r].pc = "verify" /\ req'[r].result # NoResult

\* the request is inside store_verification and has not answered
AttemptsWrite(r) ==
    /\ req'[r].pc = "store_update"
    /\ req'[r].response = NoResponse

\* what the store_verification of r writes is the result of r under the key
\* of its URL
WritesOwnResult(r) ==
    Writes(r) =>
       \E d \in collection' :
          /\ d.cache_key = generate_cache_key(req[r].url)
          /\ d.result = req[r].result

\* C22 as stated: after every miss for which the verifier returns a result
\* the request goes on to write that result under the key of its URL before
\* it answers
C22_EveryResultWritten ==
    [][\A r \in Requests :
         /\ Verified(r) => AttemptsWrite(r)
         /\ WritesOwnResult(r)]_vars

\* C22: after every miss for which the verifier returns a result with an
\* is_correct that is not null, the request goes on to write that result
\* under the key of its URL before it answers; with a null is_correct and
\* an empty explanation it answers without a write
C22_ConclusiveResultWritten ==
    [][\A r \in Requests :
         /\ (Verified(r) /\ req'[r].result.is_correct # "null") =>
                AttemptsWrite(r)
         /\ (Verified(r) /\ req'[r].result = ResultEmpty) =>
                req'[r].pc = "done" /\ ~obs'[r].wrote
         /\ WritesOwnResult(r)]_vars

\* a request that missed has written the verifier's result and answered
C22_Witness ==
    \E r \in Requests :
       /\ req[r].pc = "done"
       /\ obs[r].calls = 1
       /\ obs[r].wrote
       /\ req[r].result.is_correct # "null"
       /\ \E d \in collection : d.result = req[r].result
       /\ req[r].response = BuildResponse(req[r].result)

\* the find_one of the lookup of r answers in this step
Finds(r) ==
    /\ req[r].pc = "lookup_find"
    /\ req'[r].pc # "lookup_find"
    /\ ~obs'[r].lookupFailed

\* the entry of the key that was written last
LastWritten(d) ==
    \A e \in Matching(d.cache_key) : e.expires_at <= d.expires_at

Returns(r, d) ==
    /\ obs'[r].hit
    /\ req'[r].result = d.result
    /\ obs'[r].hitExpires = d.expires_at

\* C23: every store_verification at time t writes expires_at = t + 30 days;
\* the entry then stays while no write replaces it and it is not expired, a
\* lookup of the key made before t + 30 days returns it, and no lookup
\* returns it strictly after t + 30 days
C23_ThirtyDayWindow ==
    [][/\ \A r \in Requests :
            Writes(r) =>
               \E d \in collection' :
                  /\ d.cache_key = KeyOf(r)
                  /\ d.expires_at = req[r].at + CACHE_TTL_DAYS
       /\ \A d \in collection :
            (now < d.expires_at /\ \A r \in Requests : ~Writes(r)) =>
               d \in collection'
       /\ \A r \in Requests : \A d \in Matching(KeyOf(r)) :
            (Finds(r) /\ LastWritten(d) /\ now < d.expires_at) => Returns(r, d)
       /\ \A r \in Requests :
            (obs'[r].hit /\ ~obs[r].hit) => obs'[r].hitExpires >= now]_vars

\* the entry e of the store after the step was an entry before it
Existed(e) == \E d \in collection : d._id = e._id

\* C25: a store_verification on a key that has an entry replaces the payload
\* and expires_at of the entry and leaves its created_at as it was;
\* created_at is the time of the call only in an entry the call creates
C25_CreatedAtOfFirstCreation ==
    [][\A r \in Requests :
         Writes(r) =>
            /\ \E e \in collection' :
                 /\ e.cache_key = KeyOf(r)
                 /\ e.result = req[r].result
                 /\ e.expires_at = req[r].at + CACHE_TTL_DAYS
            /\ \A d \in collection : \A e \in collection' :
                 e._id = d._id => e.created_at = d.created_at
            /\ \A e \in collection' :
                 ~Existed(e) => e.created_at = req[r].at]_vars

\* the delete_one of the lookup of r runs in this step
Deletes(r) == req[r].pc = "lookup_delete" /\ req'[r].pc = "verify"

\* C26: the clean-up of get_cached_verification deletes only expired
\* entries: under any interleaving of lookups and writes of one key, every
\* entry its delete removes has an expires_at earlier than the time of the
\* delete
C26_OnlyExpiredDeleted ==
    [][\A r \in Requests :
         Deletes(r) =>
            \A d \in collection \ collection' : d.expires_at < now]_vars

\* C27: an inconclusive verification is not cached: a request whose
\* verifier result has a null is_correct, as the fallback for an output
\* that cannot be parsed has, writes no entry
C27_InconclusiveNotCached ==
    [][\A r \in Requests :
         req[r].result.is_correct = "null" => ~Writes(r)]_vars

\* r is answered from the cache in this step or was before it
ServedFromCache(r) == obs[r].hit \/ obs'[r].hit

\* C30: a cache hit leaves the store unchanged: the step that returns the
\* entry and every later step of the request write nothing, so the entry
\* keeps its expires_at and its created_at, and the request ends there
C30_HitLeavesStoreUnchanged ==
    [][\A r \in Requests :
         (ServedFromCache(r) /\ req'[r] # req[r]) =>
            /\ collection' = collection
            /\ ~obs'[r].wrote
            /\ obs'[r].hit => req'[r].pc = "done"]_vars

\* a request was answered from an entry stored days before, and the entry
\* is as it was stored
C30_Witness ==
    \E r \in Requests : \E d \in collection :
       /\ obs[r].hit
       /\ req[r].pc = "done"
       /\ d.cache_key = KeyOf(r)
       /\ d.result = req[r].result
       /\ d.expires_at = obs[r].hitExpires
       /\ d.expires_at = d.created_at + CACHE_TTL_DAYS
       /\ now > d.created_at

\* verify_content_agent is called for r in this step
Calls(r) == obs'[r].calls > obs[r].calls

\* C31: within a request the lookup comes before any call of the verifier,
\* the verifier is called at most once, and only when the lookup returned
\* nothing usable: it found no entry, found an expired one, or failed; a
\* request served from the cache calls no verifier and writes nothing
C31_LookupThenAtMostOneCall ==
    [][\A r \in Requests :
         /\ obs'[r].calls <= 1
         /\ Calls(r) =>
              /\ Looking(r)
              /\ ~obs'[r].hit
              /\ \/ obs'[r].lookupFailed
                 \/ req[r].pc = "lookup_find" /\ Matching(KeyOf(r)) = {}
                 \/ req[r].pc = "lookup_delete" /\ IsExpired(req[r].doc, now)
         /\ obs'[r].hit => obs'[r].calls = 0 /\ ~obs'[r].wrote]_vars

\* one request was served from the cache without a call, another called the
\* verifier once after its lookup found an expired entry
C31_Witness ==
    \E r, o \in Requests :
       /\ obs[r].hit /\ obs[r].calls = 0 /\ req[r].pc = "done"
       /\ ~obs[o].hit /\ obs[o].calls = 1 /\ req[o].pc = "done"
       /\ obs[o].wrote

\* d is the only entry written for its normalized URL
SoleFor(d) == \A e \in collection : e.url = d.url => e = d

InFlight(r) == req[r].pc \notin {"idle", "done"}

\* C33: at most one store client exists per process between startup and
\* close: however the get_database calls of the start-up and of concurrent
\* requests interleave, one client has been constructed, it is the global
\* client, and the database every caller receives is the database of that
\* client
C33_OneClientPerProcess ==
    /\ clients <= 1
    /\ _client # NoClient => _client = clients
    /\ _database # NoDatabase => _database = _client /\ _client # NoClient

\* after a start-up whose ping failed two requests are under way together,
\* and their get_database returned the database of the one client
C33_Witness ==
    /\ life = "serving"
    /\ indexes = {}
    /\ \A r \in Requests : InFlight(r)
    /\ clients = 1
    /\ _database = _client
    /\ _client # NoClient

\* connect_to_mongodb returns the client to get_database in this step
HandsOut == _database = NoDatabase /\ _database' # NoDatabase

\* the ping of the client is answered in this step
PingSucceeds == life = "index_ping" /\ life' = "index_ttl" /\ mongoUp

\* C34: connect_to_mongodb hands out a client only after a ping on that
\* client has succeeded, also after an earlier attempt to connect failed:
\* the client is pinged once, when it is constructed, and a step that hands
\* it out is the step in which that ping is answered
C34_HandedOutAfterPing ==
    [][HandsOut => PingSucceeds]_vars

\* a request arrives at r in this step
Arrives(r) ==
    /\ req[r].pc \in {"idle", "done"}
    /\ req'[r] # req[r] \/ obs'[r] # obs[r]

\* C36: a request that arrives while the application context is not
\* initialised is rejected with status 503, not 500, and makes no lookup,
\* no call of the verifier and no write: it opens no connection, leaves the
\* store as it is and has ended
C36_RejectedUninitialised ==
    [][\A r \in Requests :
         (Arrives(r) /\ app_context = None) =>
            /\ req'[r].pc = "done"
            /\ req'[r].response.status_code = 503
            /\ obs'[r].calls = 0
            /\ ~obs'[r].hit
            /\ ~obs'[r].wrote
            /\ ~obs'[r].lookupFailed
            /\ collection' = collection
            /\ UNCHANGED <<_client, _database, clients>>]_vars

\* a request was rejected before the start-up had set the context
C36_Witness ==
    \E r \in Requests :
       /\ app_context = None
       /\ req[r].pc = "done"
       /\ req[r].url # <<>>
       /\ req[r].response.status_code = 503

(***************************************************************************)
(* src/src/db/mongodb.py on its own: callers of get_database and of        *)
(* close_mongodb_connection in any order, the server up or down            *)
(***************************************************************************)
\* clients constructed in one run of the model
MaxClients == 6

\* get_database (lines 54-77) up to its first await: it returns at once
\* with the database, or constructs a client and awaits the ping
GetDatabase(r) ==
    /\ req[r].pc = "idle"
    /\ DatabaseReady \/ clients < MaxClients
    /\ GetDatabaseSync
    /\ req' = [req EXCEPT ![r].pc =
                  IF DatabaseReady THEN "idle" ELSE "connect_ping"]
    /\ UNCHANGED <<now, mongoUp, indexes, collection, app_context, life, obs,
                   first, pair, normVars, MONGODB_URI, reconcileVars>>

\* the ping of line 47 is answered and get_database returns or raises
Pinged(r) ==
    /\ req[r].pc = "connect_ping"
    /\ \E ok \in BOOLEAN : PingAnswered(ok)
    /\ req' = [req EXCEPT ![r].pc = "idle"]
    /\ UNCHANGED <<now, mongoUp, indexes, collection, app_context, life, obs,
                   first, pair, normVars, MONGODB_URI, reconcileVars>>

\* close_mongodb_connection (lines 80-89), called at any time
Close ==
    /\ close_mongodb_connection
    /\ UNCHANGED <<now, mongoUp, clients, indexes, collection, app_context,
                   life, req, obs, first, pair, normVars, MONGODB_URI,
                   reconcileVars>>

NextLifecycle ==
    \/ MongoGoesDown
    \/ MongoComesUp
    \/ Close
    \/ \E r \in Requests :
         \/ GetDatabase(r)
         \/ Pinged(r)

SpecLifecycle == Init /\ [][NextLifecycle]_vars

\* get_database runs its synchronous part in this step
Opens(r) ==
    /\ req[r].pc = "idle"
    /\ req'[r].pc = "connect_ping" \/ _database' # _database

\* C35: the global database handle is set only while the global client is
\* set; close_mongodb_connection clears both and changes nothing when no
\* client is open; and the get_database that follows a close constructs a
\* new client, it does not reuse the closed one
C35_ConnectionLifecycle ==
    [][/\ _database' # NoDatabase => _client' # NoClient
       /\ Close => _client' = NoClient /\ _database' = NoDatabase
       /\ (Close /\ _client = NoClient) => UNCHANGED vars
       /\ \A r \in Requests :
            (Opens(r) /\ _client = NoClient) =>
               /\ _client' = clients + 1
               /\ clients' = clients + 1
               /\ _database' = NoDatabase]_vars

\* a second client is open after the first one was closed, and its
\* database has been handed out
C35_Witness ==
    /\ clients = 2
    /\ _client = 2
    /\ _database = 2

(***************************************************************************)
(* The application with a TTL monitor that keeps running: MongoDB's        *)
(* monitor sweeps every 60 seconds while the server is up and has the TTL  *)
(* index, an outage of the server ends, and the event loop runs every      *)
(* request that has arrived to its end                                     *)
(***************************************************************************)
\* a step of a request that has arrived
Proceeds(r) ==
    \/ LookupFails(r)
    \/ LookupMisses(r)
    \/ LookupFinds(r)
    \/ DeleteFails(r)
    \/ DeleteExpired(r)
    \/ \E result \in VerifierResults : VerifierReturns(r, result)
    \/ VerifierRaises(r)
    \/ UpdateFails(r)
    \/ UpdateMatches(r, FALSE)
    \/ UpdateMatchesNone(r)
    \/ InsertFails(r)
    \/ InsertDocument(r, FALSE)
    \/ InsertDuplicateKey(r)
    \/ InsertRetried(r, FALSE)

SpecExpiry ==
    /\ Spec
    /\ SF_vars(TtlSweep)
    /\ WF_vars(MongoComesUp)
    /\ \A r \in Requests : WF_vars(Proceeds(r))

\* the entry with this _id is in the store and expired
ExpiredEntry(id) == \E d \in collection : d._id = id /\ d.expires_at < now

\* C29: every expired entry is eventually removed from the store, also when
\* no lookup is made for its key: the expiry of the store on expires_at is
\* in force in every run in which requests are served
C29_ExpiredEventuallyRemoved ==
    \A id \in 1..MaxIds : ExpiredEntry(id) ~> ~ExpiredEntry(id)

(***************************************************************************)
(* The end-to-end property, with the history of SpecAvailable              *)
(***************************************************************************)
\* the lookup of a request that arrived after the first one stored, less
\* than 30 days after it, has run
LaterLookupRan(r) == obs[r].seen \in {"sole", "other"}

AnsweredAsFirst(r) ==
    /\ obs[r].hit
    /\ obs[r].calls = 0
    /\ req[r].pc = "done"
    /\ req[r].response = first.response

=============================================================================
